---- MODULE Spec2Model ----
(***************************************************************************)
(* Model of hyundai_kia_connect_api/Vehicle.py: the Vehicle record and the *)
(* normalisation its property setters perform on assignment.               *)
(*                                                                         *)
(* Every Python value is a record with a `kind` field, so that values of   *)
(* different Python types can be compared (None, float, int, str,          *)
(* datetime).  A str is the sequence of its character codes; a float is    *)
(* held in tenths (123.4 is 1234); an aware datetime is its wall-clock     *)
(* reading and its utc offset, both in hours.                              *)
(***************************************************************************)
EXTENDS Integers, Sequences, FiniteSets

VARIABLES vehicle, call, steps

vars == <<vehicle, call, steps>>

(* ------------------------------ bounds --------------------------------- *)

\* Wall-clock readings handed to the timestamp setters are 0..MaxTime hours.
MaxTime == 3
\* Longest list handed to a sorted collection setter.
MaxLen == 3
\* Assignments in one run of the value+unit and collection specifications.
MaxAssign == 2

(* --------------------------- Python values ----------------------------- *)

None == [kind |-> "None"]

PyFloat(t) == [kind |-> "float", tenths |-> t]

PyInt(n) == [kind |-> "int", n |-> n]

PyStr(cs) == [kind |-> "str", chars |-> cs]

DateTime(w, o) == [kind |-> "datetime", wall |-> w, off |-> o]

\* An object that is not a timestamp at all (unparseable input).
Invalid == [kind |-> "invalid"]

(* ------------------------- datetime arithmetic ------------------------- *)

\* The instant an aware datetime denotes: datetime comparison is on instants.
utc(d) == d.wall - d.off

\* datetime.__lt__ on two aware datetimes
dt_lt(a, b) == utc(a) < utc(b)

\* datetime.__ge__ on two aware datetimes
dt_ge(a, b) == utc(a) >= utc(b)

\* datetime.utcoffset()
utcoffset(d) == d.off

\* datetime + timedelta: the wall clock moves, the tzinfo stays
dt_add(d, delta) == DateTime(d.wall + delta, d.off)

\* utils.get_safe_local_datetime: an aware datetime is converted to the host's
\* local zone (same instant, local offset); anything else yields None.
get_safe_local_datetime(date, local) ==
    IF date.kind = "datetime"
    THEN DateTime(utc(date) + local, local)
    ELSE None

(* ------------------------------- state --------------------------------- *)

\* The fields of a freshly constructed Vehicle that the setters write.
VehicleInit ==
    [ _total_driving_range |-> None,
      _total_driving_range_value |-> None,
      _total_driving_range_unit |-> None,
      _odometer |-> None,
      _odometer_value |-> None,
      _odometer_unit |-> None,
      _geocode_address |-> None,
      _geocode_name |-> None,
      _last_updated_at |-> None,
      _air_temperature |-> None,
      _air_temperature_value |-> None,
      _air_temperature_unit |-> None,
      _next_service_distance |-> None,
      _next_service_distance_value |-> None,
      _next_service_distance_unit |-> None,
      _last_service_distance |-> None,
      _last_service_distance_value |-> None,
      _last_service_distance_unit |-> None,
      _location_latitude |-> None,
      _location_longitude |-> None,
      _location_last_set_time |-> None,
      _daily_stats |-> [kind |-> "list", items |-> <<>>],
      _month_trip_info |-> None,
      _day_trip_info |-> None,
      _ev_driving_range |-> None,
      _ev_driving_range_value |-> None,
      _ev_driving_range_unit |-> None,
      _ev_estimated_current_charge_duration |-> None,
      _ev_estimated_current_charge_duration_value |-> None,
      _ev_estimated_current_charge_duration_unit |-> None,
      _ev_estimated_fast_charge_duration |-> None,
      _ev_estimated_fast_charge_duration_value |-> None,
      _ev_estimated_fast_charge_duration_unit |-> None,
      _ev_estimated_portable_charge_duration |-> None,
      _ev_estimated_portable_charge_duration_value |-> None,
      _ev_estimated_portable_charge_duration_unit |-> None,
      _ev_estimated_station_charge_duration |-> None,
      _ev_estimated_station_charge_duration_value |-> None,
      _ev_estimated_station_charge_duration_unit |-> None,
      _ev_target_range_charge_AC |-> None,
      _ev_target_range_charge_AC_value |-> None,
      _ev_target_range_charge_AC_unit |-> None,
      _ev_target_range_charge_DC |-> None,
      _ev_target_range_charge_DC_value |-> None,
      _ev_target_range_charge_DC_unit |-> None,
      _ev_first_departure_climate_temperature |-> None,
      _ev_first_departure_climate_temperature_value |-> None,
      _ev_first_departure_climate_temperature_unit |-> None,
      _ev_second_departure_climate_temperature |-> None,
      _ev_second_departure_climate_temperature_value |-> None,
      _ev_second_departure_climate_temperature_unit |-> None,
      _fuel_driving_range |-> None,
      _fuel_driving_range_value |-> None,
      _fuel_driving_range_unit |-> None ]

\* `call` records the last assignment: the property, the value assigned, the
\* host's local utc offset at that moment, and what the property's getter
\* returned just before.
NoCall == [op |-> "init", value |-> None, local |-> 0, prev |-> None]

Init ==
    /\ vehicle = VehicleInit
    /\ call = NoCall
    /\ steps = 0

(* ------------------------------ inputs --------------------------------- *)

\* utc offsets (hours) of the timestamps the API hands over
RawOffsets == {0, 1}

\* utc offsets (hours) of the host's local zone
LocalOffsets == {-1, 0, 2}

RawTimes ==
    {DateTime(w, o) : w \in 0..MaxTime, o \in RawOffsets} \cup {None, Invalid}

Latitudes == {PyFloat(10), PyFloat(20)}

Longitudes == {PyFloat(30)}

\* Magnitudes the API reports: 7.5, 7, "7.5" and "OFF"
Values == {PyFloat(75), PyInt(7), PyStr(<<55, 46, 53>>), PyStr(<<79, 70, 70>>)}

\* Units: "km" and "mi"
Units == {PyStr(<<107, 109>>), PyStr(<<109, 105>>)}

\* Geocode names "H", "W" and addresses "1", "2"
Names == {PyStr(<<72>>), PyStr(<<87>>)}

Addresses == {PyStr(<<49>>), PyStr(<<50>>)}

\* Dates of daily statistics: three days
Dates == {DateTime(0, 0), DateTime(24, 0), DateTime(48, 0)}

\* Day and time keys "1", "10" and "2": in str order "1" < "10" < "2"
Keys == {PyStr(<<49>>), PyStr(<<49, 48>>), PyStr(<<50>>)}

\* The sequences over S of length at most n
SeqsUpTo(S, n) == UNION {[1..k -> S] : k \in 0..n}

\* The sequences over S of length at most n in which no element repeats
DistinctSeqsUpTo(S, n) ==
    {q \in SeqsUpTo(S, n) : \A i, j \in 1..Len(q) : q[i] = q[j] => i = j}

(* -------------------------- last_updated_at ---------------------------- *)

last_updated_at(self) == self._last_updated_at

\* A setter that accepts a stale timestamp the correction did not rescue.
resolve_updated_at_stale(newest_updated_at, previous_updated_at) ==
    IF newest_updated_at # None /\ previous_updated_at # None
    THEN IF dt_lt(newest_updated_at, previous_updated_at)
         THEN LET newest_updated_at_corrected ==
                      dt_add(newest_updated_at, utcoffset(newest_updated_at))
              IN  IF dt_ge(newest_updated_at_corrected, previous_updated_at)
                  THEN newest_updated_at_corrected
                  ELSE newest_updated_at
         ELSE newest_updated_at
    ELSE newest_updated_at

\* A setter that subtracts the offset instead of adding it.
resolve_updated_at_sign(newest_updated_at, previous_updated_at) ==
    IF newest_updated_at # None /\ previous_updated_at # None
    THEN IF dt_lt(newest_updated_at, previous_updated_at)
         THEN LET newest_updated_at_corrected ==
                      dt_add(newest_updated_at, 0 - utcoffset(newest_updated_at))
                  candidate ==
                      IF dt_ge(newest_updated_at_corrected, previous_updated_at)
                      THEN newest_updated_at_corrected
                      ELSE newest_updated_at
              IN  IF dt_lt(candidate, previous_updated_at)
                  THEN previous_updated_at
                  ELSE candidate
         ELSE newest_updated_at
    ELSE newest_updated_at

\* A setter that ignores an input that parses to None.
resolve_updated_at_keep(newest_updated_at, previous_updated_at) ==
    IF newest_updated_at = None
    THEN previous_updated_at
    ELSE IF previous_updated_at = None
    THEN newest_updated_at
    ELSE IF dt_lt(newest_updated_at, previous_updated_at)
         THEN LET newest_updated_at_corrected ==
                      dt_add(newest_updated_at, utcoffset(newest_updated_at))
                  candidate ==
                      IF dt_ge(newest_updated_at_corrected, previous_updated_at)
                      THEN newest_updated_at_corrected
                      ELSE newest_updated_at
              IN  IF dt_lt(candidate, previous_updated_at)
                  THEN previous_updated_at
                  ELSE candidate
         ELSE newest_updated_at

\* A setter that takes the corrected value without testing that it reaches
\* the stored one.
resolve_updated_at_unchecked(newest_updated_at, previous_updated_at) ==
    IF newest_updated_at # None /\ previous_updated_at # None
    THEN IF dt_lt(newest_updated_at, previous_updated_at)
         THEN dt_add(newest_updated_at, utcoffset(newest_updated_at))
         ELSE newest_updated_at
    ELSE newest_updated_at

\* The value the setter stores, from the parsed input and the stored value.
resolve_updated_at(newest_updated_at, previous_updated_at) ==
    IF newest_updated_at # None /\ previous_updated_at # None
    THEN IF dt_lt(newest_updated_at, previous_updated_at)
         THEN LET utcoffset_ == utcoffset(newest_updated_at)
                  newest_updated_at_corrected ==
                      dt_add(newest_updated_at, utcoffset_)
                  candidate ==
                      IF dt_ge(newest_updated_at_corrected, previous_updated_at)
                      THEN newest_updated_at_corrected
                      ELSE newest_updated_at
              IN  IF dt_lt(candidate, previous_updated_at)
                  THEN previous_updated_at
                  ELSE candidate
         ELSE newest_updated_at
    ELSE newest_updated_at

last_updated_at_setter(value, local) ==
    LET newest_updated_at == get_safe_local_datetime(value, local)
        previous_updated_at == vehicle._last_updated_at
    IN  /\ vehicle' = [vehicle EXCEPT !._last_updated_at =
                          resolve_updated_at(newest_updated_at, previous_updated_at)]
        /\ call' = [op |-> "last_updated_at", value |-> value, local |-> local,
                    prev |-> last_updated_at(vehicle)]
        /\ UNCHANGED steps

(* ------------------------------ location ------------------------------- *)

location_latitude(self) == self._location_latitude

location_longitude(self) == self._location_longitude

location(self) == <<self._location_longitude, self._location_latitude>>

location_last_updated_at(self) == self._location_last_set_time

\* A setter that also refreshes last_updated_at from the location's time.
location_store_touch(self, value, local) ==
    [self EXCEPT !._location_latitude = value[1],
                 !._location_longitude = value[2],
                 !._location_last_set_time = get_safe_local_datetime(value[3], local),
                 !._last_updated_at = get_safe_local_datetime(value[3], local)]

location_store(self, value, local) ==
    [self EXCEPT !._location_latitude = value[1],
                 !._location_longitude = value[2],
                 !._location_last_set_time = get_safe_local_datetime(value[3], local)]

location_setter(value, local) ==
    /\ vehicle' = location_store(vehicle, value, local)
    /\ call' = [op |-> "location", value |-> value, local |-> local,
                prev |-> location_last_updated_at(vehicle)]
    /\ UNCHANGED steps

(* ------------------------------ geocode -------------------------------- *)

PyTuple(items) == [kind |-> "tuple", items |-> items]

\* Python truthiness of a geocode argument: None and the empty tuple are falsy.
Truthy(v) == v.kind # "None" /\ (v.kind = "tuple" => v.items # <<>>)

\* The bookkeeping of one counted assignment.
Assigned(op, value, prev) ==
    /\ steps < MaxAssign
    /\ steps' = steps + 1
    /\ call' = [op |-> op, value |-> value, local |-> 0, prev |-> prev]

geocode(self) == <<self._geocode_name, self._geocode_address>>

\* A setter that clears only the name when given None.
geocode_store_half(self, value) ==
    IF Truthy(value)
    THEN [self EXCEPT !._geocode_name = value.items[1],
                      !._geocode_address = value.items[2]]
    ELSE [self EXCEPT !._geocode_name = None]

geocode_store(self, value) ==
    IF Truthy(value)
    THEN [self EXCEPT !._geocode_name = value.items[1],
                      !._geocode_address = value.items[2]]
    ELSE [self EXCEPT !._geocode_name = None,
                      !._geocode_address = None]

geocode_setter(value) ==
    /\ Assigned("geocode", value, geocode(vehicle))
    /\ vehicle' = geocode_store(vehicle, value)

(* ------------------------- value+unit setters -------------------------- *)

total_driving_range(self) == self._total_driving_range

total_driving_range_unit(self) == self._total_driving_range_unit

total_driving_range_setter(value) ==
    /\ Assigned("total_driving_range", value, total_driving_range(vehicle))
    /\ vehicle' = [vehicle EXCEPT !._total_driving_range_value = value[1],
                                  !._total_driving_range_unit = value[2],
                                  !._total_driving_range = value[1]]

next_service_distance(self) == self._next_service_distance

next_service_distance_setter(value) ==
    /\ Assigned("next_service_distance", value, next_service_distance(vehicle))
    /\ vehicle' = [vehicle EXCEPT !._next_service_distance_value = value[1],
                                  !._next_service_distance_unit = value[2],
                                  !._next_service_distance = value[1]]

last_service_distance(self) == self._last_service_distance

last_service_distance_setter(value) ==
    /\ Assigned("last_service_distance", value, last_service_distance(vehicle))
    /\ vehicle' = [vehicle EXCEPT !._last_service_distance_value = value[1],
                                  !._last_service_distance_unit = value[2],
                                  !._last_service_distance = value[1]]

ev_driving_range(self) == self._ev_driving_range

ev_driving_range_unit(self) == self._ev_driving_range_unit

ev_driving_range_setter(value) ==
    /\ Assigned("ev_driving_range", value, ev_driving_range(vehicle))
    /\ vehicle' = [vehicle EXCEPT !._ev_driving_range_value = value[1],
                                  !._ev_driving_range_unit = value[2],
                                  !._ev_driving_range = value[1]]

ev_estimated_current_charge_duration(self) == self._ev_estimated_current_charge_duration

ev_estimated_current_charge_duration_setter(value) ==
    /\ Assigned("ev_estimated_current_charge_duration", value, ev_estimated_current_charge_duration(vehicle))
    /\ vehicle' = [vehicle EXCEPT !._ev_estimated_current_charge_duration_value = value[1],
                                  !._ev_estimated_current_charge_duration_unit = value[2],
                                  !._ev_estimated_current_charge_duration = value[1]]

ev_estimated_fast_charge_duration(self) == self._ev_estimated_fast_charge_duration

ev_estimated_fast_charge_duration_setter(value) ==
    /\ Assigned("ev_estimated_fast_charge_duration", value, ev_estimated_fast_charge_duration(vehicle))
    /\ vehicle' = [vehicle EXCEPT !._ev_estimated_fast_charge_duration_value = value[1],
                                  !._ev_estimated_fast_charge_duration_unit = value[2],
                                  !._ev_estimated_fast_charge_duration = value[1]]

ev_estimated_portable_charge_duration(self) == self._ev_estimated_portable_charge_duration

ev_estimated_portable_charge_duration_setter(value) ==
    /\ Assigned("ev_estimated_portable_charge_duration", value, ev_estimated_portable_charge_duration(vehicle))
    /\ vehicle' = [vehicle EXCEPT !._ev_estimated_portable_charge_duration_value = value[1],
                                  !._ev_estimated_portable_charge_duration_unit = value[2],
                                  !._ev_estimated_portable_charge_duration = value[1]]

ev_estimated_station_charge_duration(self) == self._ev_estimated_station_charge_duration

ev_estimated_station_charge_duration_setter(value) ==
    /\ Assigned("ev_estimated_station_charge_duration", value, ev_estimated_station_charge_duration(vehicle))
    /\ vehicle' = [vehicle EXCEPT !._ev_estimated_station_charge_duration_value = value[1],
                                  !._ev_estimated_station_charge_duration_unit = value[2],
                                  !._ev_estimated_station_charge_duration = value[1]]

ev_target_range_charge_AC(self) == self._ev_target_range_charge_AC

ev_target_range_charge_AC_unit(self) == self._ev_target_range_charge_AC_unit

ev_target_range_charge_AC_setter(value) ==
    /\ Assigned("ev_target_range_charge_AC", value, ev_target_range_charge_AC(vehicle))
    /\ vehicle' = [vehicle EXCEPT !._ev_target_range_charge_AC_value = value[1],
                                  !._ev_target_range_charge_AC_unit = value[2],
                                  !._ev_target_range_charge_AC = value[1]]

ev_target_range_charge_DC(self) == self._ev_target_range_charge_DC

ev_target_range_charge_DC_unit(self) == self._ev_target_range_charge_DC_unit

ev_target_range_charge_DC_setter(value) ==
    /\ Assigned("ev_target_range_charge_DC", value, ev_target_range_charge_DC(vehicle))
    /\ vehicle' = [vehicle EXCEPT !._ev_target_range_charge_DC_value = value[1],
                                  !._ev_target_range_charge_DC_unit = value[2],
                                  !._ev_target_range_charge_DC = value[1]]

ev_first_departure_climate_temperature(self) == self._ev_first_departure_climate_temperature

ev_first_departure_climate_temperature_unit(self) == self._ev_first_departure_climate_temperature_unit

ev_first_departure_climate_temperature_setter(value) ==
    /\ Assigned("ev_first_departure_climate_temperature", value, ev_first_departure_climate_temperature(vehicle))
    /\ vehicle' = [vehicle EXCEPT !._ev_first_departure_climate_temperature_value = value[1],
                                  !._ev_first_departure_climate_temperature_unit = value[2],
                                  !._ev_first_departure_climate_temperature = value[1]]

ev_second_departure_climate_temperature(self) == self._ev_second_departure_climate_temperature

ev_second_departure_climate_temperature_unit(self) == self._ev_second_departure_climate_temperature_unit

ev_second_departure_climate_temperature_setter(value) ==
    /\ Assigned("ev_second_departure_climate_temperature", value, ev_second_departure_climate_temperature(vehicle))
    /\ vehicle' = [vehicle EXCEPT !._ev_second_departure_climate_temperature_value = value[1],
                                  !._ev_second_departure_climate_temperature_unit = value[2],
                                  !._ev_second_departure_climate_temperature = value[1]]

fuel_driving_range(self) == self._fuel_driving_range

\* A setter that reads the unit from the wrong tuple index.
fuel_driving_range_setter_index(value) ==
    /\ Assigned("fuel_driving_range", value, fuel_driving_range(vehicle))
    /\ vehicle' = [vehicle EXCEPT !._fuel_driving_range_value = value[1],
                                  !._fuel_driving_range_unit = value[1],
                                  !._fuel_driving_range = value[1]]

fuel_driving_range_setter(value) ==
    /\ Assigned("fuel_driving_range", value, fuel_driving_range(vehicle))
    /\ vehicle' = [vehicle EXCEPT !._fuel_driving_range_value = value[1],
                                  !._fuel_driving_range_unit = value[2],
                                  !._fuel_driving_range = value[1]]

(* ------------------------------ odometer ------------------------------- *)

IsDigit(c) == c \in 48..57

IsDigits(cs) == cs # <<>> /\ \A i \in 1..Len(cs) : IsDigit(cs[i])

RECURSIVE DigitsValue(_)
DigitsValue(cs) ==
    IF cs = <<>>
    THEN 0
    ELSE DigitsValue(SubSeq(cs, 1, Len(cs) - 1)) * 10 + (cs[Len(cs)] - 48)

\* float(str) for plain decimals with at most one fractional digit, in tenths;
\* None for a string that is not such a number.
float_of_str(cs) ==
    IF IsDigits(cs)
    THEN PyFloat(DigitsValue(cs) * 10)
    ELSE IF /\ Len(cs) >= 3
            /\ cs[Len(cs) - 1] = 46
            /\ IsDigits(SubSeq(cs, 1, Len(cs) - 2))
            /\ IsDigit(cs[Len(cs)])
    THEN PyFloat(DigitsValue(SubSeq(cs, 1, Len(cs) - 2)) * 10 + (cs[Len(cs)] - 48))
    ELSE None

\* utils.get_float: a float is returned as it is, an int as the equal float, a
\* str is parsed, and what cannot be parsed yields None.
get_float(value) ==
    CASE value.kind = "float" -> value
      [] value.kind = "int" -> PyFloat(value.n * 10)
      [] value.kind = "str" -> float_of_str(value.chars)
      [] OTHER -> None

odometer(self) == self._odometer

odometer_unit(self) == self._odometer_unit

\* A setter that stores its value verbatim, like the other value+unit setters.
odometer_setter_verbatim(value) ==
    /\ Assigned("odometer", value, odometer(vehicle))
    /\ vehicle' = [vehicle EXCEPT !._odometer_value = value[1],
                                  !._odometer_unit = value[2],
                                  !._odometer = value[1]]

odometer_setter(value) ==
    LET float_value == get_float(value[1])
    IN  /\ Assigned("odometer", value, odometer(vehicle))
        /\ vehicle' = [vehicle EXCEPT !._odometer_value = float_value,
                                      !._odometer_unit = value[2],
                                      !._odometer = float_value]

(* --------------------------- air_temperature --------------------------- *)

\* The str "OFF"
OFF == PyStr(<<79, 70, 70>>)

air_temperature(self) == self._air_temperature

\* A setter that clears the raw value too when given "OFF".
air_temperature_setter_raw(value) ==
    /\ Assigned("air_temperature", value, air_temperature(vehicle))
    /\ vehicle' = [vehicle EXCEPT
                      !._air_temperature_value =
                          IF value[1] # OFF THEN value[1] ELSE None,
                      !._air_temperature_unit = value[2],
                      !._air_temperature =
                          IF value[1] # OFF THEN value[1] ELSE None]

air_temperature_setter(value) ==
    /\ Assigned("air_temperature", value, air_temperature(vehicle))
    /\ vehicle' = [vehicle EXCEPT
                      !._air_temperature_value = value[1],
                      !._air_temperature_unit = value[2],
                      !._air_temperature =
                          IF value[1] # OFF THEN value[1] ELSE None]

(* ------------------------ sorted collections --------------------------- *)

PyList(items) == [kind |-> "list", items |-> items]

\* dataclass DailyDrivingStats: the date and one of the other fields
DailyDrivingStats(date, distance) ==
    [kind |-> "DailyDrivingStats", date |-> date, distance |-> distance]

\* dataclass DayTripCounts
DayTripCounts(yyyymmdd, trip_count) ==
    [kind |-> "DayTripCounts", yyyymmdd |-> yyyymmdd, trip_count |-> trip_count]

\* dataclass TripInfo: the time of day and one of the other fields
TripInfo(hhmmss, distance) ==
    [kind |-> "TripInfo", hhmmss |-> hhmmss, distance |-> distance]

\* dataclass MonthTripInfo
MonthTripInfo(yyyymm, day_list) ==
    [kind |-> "MonthTripInfo", yyyymm |-> yyyymm, summary |-> None,
     day_list |-> day_list]

\* dataclass DayTripInfo
DayTripInfo(yyyymmdd, trip_list) ==
    [kind |-> "DayTripInfo", yyyymmdd |-> yyyymmdd, summary |-> None,
     trip_list |-> trip_list]

hasattr(obj, name) == name \in DOMAIN obj

\* str.__lt__: lexicographic on the character codes
RECURSIVE str_lt(_, _)
str_lt(a, b) ==
    IF b = <<>> THEN FALSE
    ELSE IF a = <<>> THEN TRUE
    ELSE IF a[1] # b[1] THEN a[1] < b[1]
    ELSE str_lt(Tail(a), Tail(b))

\* The < that list.sort applies to two keys: datetimes or strs.
key_lt(a, b) ==
    IF a.kind = "datetime" THEN dt_lt(a, b) ELSE str_lt(a.chars, b.chars)

\* x goes before y in the sorted list.
goes_before(x, y, key, reverse) ==
    IF reverse THEN key_lt(y[key], x[key]) ELSE key_lt(x[key], y[key])

\* One insertion of a stable sort: x goes behind every element it does not
\* go before.
sort_insert(sorted, x, key, reverse) ==
    LET p == Cardinality({j \in 1..Len(sorted) :
                             ~goes_before(x, sorted[j], key, reverse)})
    IN  SubSeq(sorted, 1, p) \o <<x>> \o SubSeq(sorted, p + 1, Len(sorted))

\* A sort that ignores reverse=True.
RECURSIVE list_sort_forward(_, _, _)
list_sort_forward(items, key, reverse) ==
    IF items = <<>>
    THEN <<>>
    ELSE sort_insert(list_sort_forward(SubSeq(items, 1, Len(items) - 1), key, reverse),
                     items[Len(items)], key, FALSE)

\* list.sort(key=lambda k: k.<key>, reverse=reverse): a stable sort
RECURSIVE list_sort(_, _, _)
list_sort(items, key, reverse) ==
    IF items = <<>>
    THEN <<>>
    ELSE sort_insert(list_sort(SubSeq(items, 1, Len(items) - 1), key, reverse),
                     items[Len(items)], key, reverse)

daily_stats(self) == self._daily_stats

\* The value the daily_stats setter stores.
daily_stats_result(value) ==
    IF value # None /\ Len(value.items) > 0
    THEN PyList(list_sort(value.items, "date", TRUE))
    ELSE value

\* A setter that stores only inside the if: an empty value changes nothing.
daily_stats_setter_skip(value) ==
    /\ Assigned("daily_stats", value, daily_stats(vehicle))
    /\ vehicle' = IF value # None /\ Len(value.items) > 0
                  THEN [vehicle EXCEPT !._daily_stats = daily_stats_result(value)]
                  ELSE vehicle

daily_stats_setter(value) ==
    /\ Assigned("daily_stats", value, daily_stats(vehicle))
    /\ vehicle' = [vehicle EXCEPT !._daily_stats = daily_stats_result(value)]

month_trip_info(self) == self._month_trip_info

\* The value the month_trip_info setter stores.
month_trip_info_result(value) ==
    IF value # None /\ hasattr(value, "day_list") /\ Len(value.day_list) > 0
    THEN [value EXCEPT !.day_list = list_sort(value.day_list, "yyyymmdd", FALSE)]
    ELSE value

month_trip_info_setter(value) ==
    /\ Assigned("month_trip_info", value, month_trip_info(vehicle))
    /\ vehicle' = [vehicle EXCEPT !._month_trip_info = month_trip_info_result(value)]

day_trip_info(self) == self._day_trip_info

\* The value the day_trip_info setter stores.
day_trip_info_result(value) ==
    IF value # None /\ hasattr(value, "trip_list") /\ Len(value.trip_list) > 0
    THEN [value EXCEPT !.trip_list = list_sort(value.trip_list, "hhmmss", TRUE)]
    ELSE value

day_trip_info_setter(value) ==
    /\ Assigned("day_trip_info", value, day_trip_info(vehicle))
    /\ vehicle' = [vehicle EXCEPT !._day_trip_info = day_trip_info_result(value)]

(* --------------------------- specifications ---------------------------- *)

NextClock ==
    \/ \E value \in RawTimes, local \in LocalOffsets :
          last_updated_at_setter(value, local)
    \/ \E lat \in Latitudes, lon \in Longitudes, t \in RawTimes, local \in LocalOffsets :
          location_setter(<<lat, lon, t>>, local)

SpecClock == Init /\ [][NextClock]_vars

NextFields ==
    \/ \E name \in Names, address \in Addresses :
          geocode_setter([kind |-> "tuple", items |-> <<name, address>>])
    \/ geocode_setter(None)
    \/ geocode_setter([kind |-> "tuple", items |-> <<>>])
    \/ \E v \in Values, u \in Units :
          \/ total_driving_range_setter(<<v, u>>)
          \/ odometer_setter(<<v, u>>)
          \/ air_temperature_setter(<<v, u>>)
          \/ next_service_distance_setter(<<v, u>>)
          \/ last_service_distance_setter(<<v, u>>)
          \/ ev_driving_range_setter(<<v, u>>)
          \/ ev_estimated_current_charge_duration_setter(<<v, u>>)
          \/ ev_estimated_fast_charge_duration_setter(<<v, u>>)
          \/ ev_estimated_portable_charge_duration_setter(<<v, u>>)
          \/ ev_estimated_station_charge_duration_setter(<<v, u>>)
          \/ ev_target_range_charge_AC_setter(<<v, u>>)
          \/ ev_target_range_charge_DC_setter(<<v, u>>)
          \/ ev_first_departure_climate_temperature_setter(<<v, u>>)
          \/ ev_second_departure_climate_temperature_setter(<<v, u>>)
          \/ fuel_driving_range_setter(<<v, u>>)

SpecFields == Init /\ [][NextFields]_vars

\* The lists handed to the collection setters: element i carries i in one of
\* its other fields, so that elements with equal keys can be told apart.
DailyStatsInputs ==
    {PyList([i \in 1..Len(q) |-> DailyDrivingStats(q[i], i)]) : q \in SeqsUpTo(Dates, MaxLen)}
        \cup {None}

MonthTripInputs ==
    {MonthTripInfo(PyStr(<<49>>), [i \in 1..Len(q) |-> DayTripCounts(q[i], i)]) :
        q \in DistinctSeqsUpTo(Keys, MaxLen)}
        \cup {None, TripInfo(PyStr(<<49>>), 1)}

DayTripInputs ==
    {DayTripInfo(PyStr(<<49>>), [i \in 1..Len(q) |-> TripInfo(q[i], i)]) :
        q \in DistinctSeqsUpTo(Keys, MaxLen)}
        \cup {None, DayTripCounts(PyStr(<<49>>), 1)}

NextTrips ==
    \/ \E value \in DailyStatsInputs : daily_stats_setter(value)
    \/ \E value \in MonthTripInputs : month_trip_info_setter(value)
    \/ \E value \in DayTripInputs : day_trip_info_setter(value)

SpecTrips == Init /\ [][NextTrips]_vars

(* ------------------- claims about last_updated_at ---------------------- *)

\* The parsed input of the last call (a last_updated_at or location timestamp).
CallNewest ==
    IF call.op = "last_updated_at"
    THEN get_safe_local_datetime(call.value, call.local)
    ELSE IF call.op = "location"
    THEN get_safe_local_datetime(call.value[3], call.local)
    ELSE None

\* The last call assigned last_updated_at with both the parsed input and the
\* stored value non-empty.
BothFilled ==
    /\ call.op = "last_updated_at"
    /\ CallNewest # None
    /\ call.prev # None

CallCorrected == dt_add(CallNewest, utcoffset(CallNewest))

\* C1: after assigning last_updated_at with both values non-empty: if new is
\* earlier than previous, the stored value is new + new.utcoffset() when that
\* is not earlier than previous and is the previous value otherwise; if new is
\* not earlier than previous, the stored value is new.
C1_Correction ==
    BothFilled =>
        IF dt_lt(CallNewest, call.prev)
        THEN IF dt_ge(CallCorrected, call.prev)
             THEN last_updated_at(vehicle) = CallCorrected
             ELSE last_updated_at(vehicle) = call.prev
        ELSE last_updated_at(vehicle) = CallNewest

\* An apparent regression that the offset resolves: the corrected value is stored.
C1_Witness ==
    /\ BothFilled
    /\ dt_lt(CallNewest, call.prev)
    /\ dt_ge(CallCorrected, call.prev)
    /\ last_updated_at(vehicle) = CallCorrected
    /\ last_updated_at(vehicle) # CallNewest

\* C2 as stated: an earlier input the correction does not rescue is stored as-is.
C2_StaleAccepted ==
    (BothFilled /\ dt_lt(CallNewest, call.prev) /\ dt_lt(CallCorrected, call.prev))
        => last_updated_at(vehicle) = CallNewest

\* C2 (amended): an earlier input that the offset correction does not bring up
\* to the stored value is rejected and the stored value stays the previous one;
\* an assignment with both values non-empty never stores an earlier instant
\* than the one stored before.
C2_StaleRejected ==
    BothFilled =>
        /\ dt_ge(last_updated_at(vehicle), call.prev)
        /\ (dt_lt(CallNewest, call.prev) /\ dt_lt(CallCorrected, call.prev))
               => last_updated_at(vehicle) = call.prev

\* A stale input with a positive offset that is still too small: rejected.
C2_Witness ==
    /\ BothFilled
    /\ utcoffset(CallNewest) > 0
    /\ dt_lt(CallCorrected, call.prev)
    /\ last_updated_at(vehicle) = call.prev

\* C3: when the stored value is empty or the input parses to empty, the stored
\* value after the assignment is exactly the parsed input.
C3_NoCorrection ==
    (call.op = "last_updated_at" /\ (call.prev = None \/ CallNewest = None))
        => last_updated_at(vehicle) = CallNewest

\* A first-ever set of a timestamp with a non-zero offset, stored uncorrected.
C3_Witness ==
    /\ call.op = "last_updated_at"
    /\ call.prev = None
    /\ CallNewest # None
    /\ utcoffset(CallNewest) # 0
    /\ last_updated_at(vehicle) = CallNewest

\* An input parsing to empty clears a stored timestamp.
C3_WitnessReset ==
    /\ call.op = "last_updated_at"
    /\ call.prev # None
    /\ CallNewest = None
    /\ last_updated_at(vehicle) = None

(* ----------------------- claims about location ------------------------- *)

\* C9: after location = (lat, lon, t) the getter returns (lon, lat), the two
\* coordinate getters return lat and lon, location_last_updated_at is the
\* parsed t whatever the earlier location time was, and last_updated_at is
\* untouched; assigning last_updated_at leaves the location fields untouched.
C9_Location ==
    [][ /\ call'.op = "location" =>
            /\ location(vehicle') = <<call'.value[2], call'.value[1]>>
            /\ location_latitude(vehicle') = call'.value[1]
            /\ location_longitude(vehicle') = call'.value[2]
            /\ location_last_updated_at(vehicle') =
                   get_safe_local_datetime(call'.value[3], call'.local)
            /\ last_updated_at(vehicle') = last_updated_at(vehicle)
        /\ call'.op = "last_updated_at" =>
            /\ location(vehicle') = location(vehicle)
            /\ location_latitude(vehicle') = location_latitude(vehicle)
            /\ location_longitude(vehicle') = location_longitude(vehicle)
            /\ location_last_updated_at(vehicle') = location_last_updated_at(vehicle)
      ]_vars

\* A location assigned with a time earlier than the previous location time
\* and earlier than a stored last_updated_at: stored as it is.
C9_Witness ==
    /\ call.op = "location"
    /\ call.prev # None
    /\ CallNewest # None
    /\ dt_lt(CallNewest, call.prev)
    /\ dt_lt(dt_add(CallNewest, utcoffset(CallNewest)), call.prev)
    /\ location_last_updated_at(vehicle) = CallNewest
    /\ location(vehicle) = <<call.value[2], call.value[1]>>
    /\ last_updated_at(vehicle) # None
    /\ dt_lt(CallNewest, last_updated_at(vehicle))

(* -------------------- claims about value+unit setters ------------------ *)

\* The setters that store their value verbatim.
VerbatimSetters ==
    {"total_driving_range",
     "next_service_distance",
     "last_service_distance",
     "ev_driving_range",
     "ev_estimated_current_charge_duration",
     "ev_estimated_fast_charge_duration",
     "ev_estimated_portable_charge_duration",
     "ev_estimated_station_charge_duration",
     "ev_target_range_charge_AC",
     "ev_target_range_charge_DC",
     "ev_first_departure_climate_temperature",
     "ev_second_departure_climate_temperature",
     "fuel_driving_range"}

ValueUnitSetters == VerbatimSetters \cup {"odometer", "air_temperature"}

\* What the value getter of property `op` returns.
Get(self, op) ==
    CASE op = "total_driving_range" -> total_driving_range(self)
      [] op = "next_service_distance" -> next_service_distance(self)
      [] op = "last_service_distance" -> last_service_distance(self)
      [] op = "ev_driving_range" -> ev_driving_range(self)
      [] op = "ev_estimated_current_charge_duration" -> ev_estimated_current_charge_duration(self)
      [] op = "ev_estimated_fast_charge_duration" -> ev_estimated_fast_charge_duration(self)
      [] op = "ev_estimated_portable_charge_duration" -> ev_estimated_portable_charge_duration(self)
      [] op = "ev_estimated_station_charge_duration" -> ev_estimated_station_charge_duration(self)
      [] op = "ev_target_range_charge_AC" -> ev_target_range_charge_AC(self)
      [] op = "ev_target_range_charge_DC" -> ev_target_range_charge_DC(self)
      [] op = "ev_first_departure_climate_temperature" -> ev_first_departure_climate_temperature(self)
      [] op = "ev_second_departure_climate_temperature" -> ev_second_departure_climate_temperature(self)
      [] op = "fuel_driving_range" -> fuel_driving_range(self)
      [] op = "odometer" -> odometer(self)
      [] op = "air_temperature" -> air_temperature(self)

\* The unit of property `op`: its unit getter where there is one, else the unit field.
GetUnit(self, op) ==
    CASE op = "total_driving_range" -> total_driving_range_unit(self)
      [] op = "odometer" -> odometer_unit(self)
      [] op = "ev_driving_range" -> ev_driving_range_unit(self)
      [] op = "ev_target_range_charge_AC" -> ev_target_range_charge_AC_unit(self)
      [] op = "ev_target_range_charge_DC" -> ev_target_range_charge_DC_unit(self)
      [] op = "ev_first_departure_climate_temperature" -> ev_first_departure_climate_temperature_unit(self)
      [] op = "ev_second_departure_climate_temperature" -> ev_second_departure_climate_temperature_unit(self)
      [] OTHER -> self["_" \o op \o "_unit"]

\* The private raw-value field of property `op`.
GetRaw(self, op) == self["_" \o op \o "_value"]

IsNumber(a) == a.kind \in {"float", "int"}

Tenths(a) == IF a.kind = "float" THEN a.tenths ELSE a.n * 10

\* Python's == on the modelled values: an int equals the float of the same value.
py_eq(a, b) == IF IsNumber(a) /\ IsNumber(b) THEN Tenths(a) = Tenths(b) ELSE a = b

\* C4 as stated: after any value+unit assignment (v, u) the getter returns v,
\* the raw-value field holds v and the unit is u.
C4_AllVerbatim ==
    call.op \in ValueUnitSetters =>
        /\ py_eq(Get(vehicle, call.op), call.value[1])
        /\ py_eq(GetRaw(vehicle, call.op), call.value[1])
        /\ GetUnit(vehicle, call.op) = call.value[2]

\* C4 (amended): after assigning (v, u) through any value+unit setter the unit
\* is u; through every setter other than odometer and air_temperature the
\* getter returns v and the raw-value field holds v; air_temperature does the
\* same for every v other than "OFF", and its raw-value field holds v always;
\* odometer's getter and raw-value field hold get_float(v).
C4_Verbatim ==
    call.op \in ValueUnitSetters =>
        /\ GetUnit(vehicle, call.op) = call.value[2]
        /\ call.op = "odometer" =>
              /\ Get(vehicle, call.op) = get_float(call.value[1])
              /\ GetRaw(vehicle, call.op) = get_float(call.value[1])
        /\ call.op \in VerbatimSetters =>
              /\ Get(vehicle, call.op) = call.value[1]
              /\ GetRaw(vehicle, call.op) = call.value[1]
        /\ call.op = "air_temperature" =>
              /\ GetRaw(vehicle, call.op) = call.value[1]
              /\ call.value[1] # OFF => Get(vehicle, call.op) = call.value[1]

\* A verbatim setter overwrote an earlier pair with a str value.
C4_Witness ==
    /\ call.op = "fuel_driving_range"
    /\ call.prev # None
    /\ call.value[1].kind = "str"
    /\ call.prev # call.value[1]
    /\ fuel_driving_range(vehicle) = call.value[1]
    /\ vehicle._fuel_driving_range_unit = call.value[2]

\* C7: after air_temperature = (v, u): when v is "OFF" the getter returns None,
\* the raw-value field holds "OFF" and the unit is u; for any other v the
\* getter returns v, the raw-value field holds v and the unit is u.
C7_AirTemperature ==
    call.op = "air_temperature" =>
        /\ vehicle._air_temperature_unit = call.value[2]
        /\ vehicle._air_temperature_value = call.value[1]
        /\ IF call.value[1] = PyStr(<<79, 70, 70>>)
           THEN air_temperature(vehicle) = None
           ELSE air_temperature(vehicle) = call.value[1]

\* "OFF" assigned over an earlier temperature.
C7_Witness ==
    /\ call.op = "air_temperature"
    /\ call.prev # None
    /\ call.value[1] = PyStr(<<79, 70, 70>>)
    /\ air_temperature(vehicle) = None
    /\ vehicle._air_temperature_value = PyStr(<<79, 70, 70>>)

\* C8: odometer = (v, u) stores get_float(v) as the value and the raw value
\* and u as the unit and changes nothing else, so ("7.5", u) and (7.5, u) leave
\* the same record, with odometer 7.5; every other value+unit setter stores a
\* str value as the str it was given.
C8_Odometer ==
    [][ /\ call'.op = "odometer" =>
            /\ vehicle' = [vehicle EXCEPT
                              !._odometer = get_float(call'.value[1]),
                              !._odometer_value = get_float(call'.value[1]),
                              !._odometer_unit = call'.value[2]]
            /\ call'.value[1] \in {PyStr(<<55, 46, 53>>), PyFloat(75)} =>
                  vehicle' = [vehicle EXCEPT
                                 !._odometer = PyFloat(75),
                                 !._odometer_value = PyFloat(75),
                                 !._odometer_unit = call'.value[2]]
        /\ (call'.op \in ValueUnitSetters \ {"odometer"}
               /\ call'.value[1].kind = "str") =>
            /\ GetRaw(vehicle', call'.op) = call'.value[1]
            /\ call'.value[1] # OFF => Get(vehicle', call'.op) = call'.value[1]
      ]_vars

\* The str "7.5" assigned to odometer and read back as the float 7.5.
C8_Witness ==
    /\ call.op = "odometer"
    /\ call.value[1] = PyStr(<<55, 46, 53>>)
    /\ odometer(vehicle) = PyFloat(75)
    /\ vehicle._odometer_value = PyFloat(75)
    /\ odometer_unit(vehicle) = call.value[2]

(* ------------------------ claims about geocode ------------------------- *)

\* C10: geocode = None leaves the getter returning (None, None) whatever was
\* stored; geocode = (name, address) makes it return (name, address).
C10_Geocode ==
    call.op = "geocode" =>
        IF call.value = None
        THEN geocode(vehicle) = <<None, None>>
        ELSE call.value.items # <<>> =>
                 geocode(vehicle) = <<call.value.items[1], call.value.items[2]>>

\* None assigned over a stored name and address.
C10_Witness ==
    /\ call.op = "geocode"
    /\ call.value = None
    /\ call.prev[1] # None
    /\ call.prev[2] # None
    /\ geocode(vehicle) = <<None, None>>

\* A pair assigned over a different stored pair.
C10_WitnessPair ==
    /\ call.op = "geocode"
    /\ call.value # None
    /\ call.value.items # <<>>
    /\ call.prev[1] # None
    /\ call.prev[1] # call.value.items[1]
    /\ geocode(vehicle) = <<call.value.items[1], call.value.items[2]>>

(* ------------------ claims about sorted collections -------------------- *)

\* b holds the elements of a, each as often as a does.
IsPermutation(a, b) ==
    /\ Len(a) = Len(b)
    /\ \A i \in 1..Len(a) :
          Cardinality({j \in 1..Len(a) : a[j] = a[i]})
              = Cardinality({j \in 1..Len(b) : b[j] = a[i]})

\* No element of s has a later date than an element before it.
NonIncreasingByDate(s) ==
    \A i, j \in 1..Len(s) : i < j => ~dt_lt(s[i].date, s[j].date)

AscendingBy(s, key) ==
    \A i, j \in 1..Len(s) : i < j => ~str_lt(s[j][key].chars, s[i][key].chars)

DescendingBy(s, key) ==
    \A i, j \in 1..Len(s) : i < j => ~str_lt(s[i][key].chars, s[j][key].chars)

\* The last call assigned a non-empty value to a sorted collection property.
NonEmptyAssigned ==
    \/ call.op = "daily_stats" /\ call.value # None /\ call.value.items # <<>>
    \/ call.op = "month_trip_info" /\ hasattr(call.value, "day_list")
          /\ call.value.day_list # <<>>
    \/ call.op = "day_trip_info" /\ hasattr(call.value, "trip_list")
          /\ call.value.trip_list # <<>>

\* C5: after a non-empty value is assigned to a sorted collection property the
\* stored inner list is a permutation of the assigned elements (the rest of a
\* container is kept), and in every reachable state daily_stats is
\* non-increasing by date, month_trip_info.day_list ascending by yyyymmdd and
\* day_trip_info.trip_list descending by hhmmss.
C5_Sorted ==
    /\ daily_stats(vehicle) # None => NonIncreasingByDate(daily_stats(vehicle).items)
    /\ hasattr(month_trip_info(vehicle), "day_list") =>
          AscendingBy(month_trip_info(vehicle).day_list, "yyyymmdd")
    /\ hasattr(day_trip_info(vehicle), "trip_list") =>
          DescendingBy(day_trip_info(vehicle).trip_list, "hhmmss")
    /\ (NonEmptyAssigned /\ call.op = "daily_stats") =>
          IsPermutation(call.value.items, daily_stats(vehicle).items)
    /\ (NonEmptyAssigned /\ call.op = "month_trip_info") =>
          /\ IsPermutation(call.value.day_list, month_trip_info(vehicle).day_list)
          /\ [month_trip_info(vehicle) EXCEPT !.day_list = <<>>]
                 = [call.value EXCEPT !.day_list = <<>>]
    /\ (NonEmptyAssigned /\ call.op = "day_trip_info") =>
          /\ IsPermutation(call.value.trip_list, day_trip_info(vehicle).trip_list)
          /\ [day_trip_info(vehicle) EXCEPT !.trip_list = <<>>]
                 = [call.value EXCEPT !.trip_list = <<>>]

\* Three daily statistics handed over out of order, two of them with the same
\* date, and stored in another order than they came.
C5_Witness ==
    /\ call.op = "daily_stats"
    /\ call.value # None
    /\ Len(call.value.items) = 3
    /\ dt_lt(call.value.items[1].date, call.value.items[2].date)
    /\ call.value.items[1].date = call.value.items[3].date
    /\ daily_stats(vehicle) # call.value
    /\ steps = 2

\* A day_list of three days handed over out of order.
C5_WitnessMonth ==
    /\ call.op = "month_trip_info"
    /\ hasattr(call.value, "day_list")
    /\ Len(call.value.day_list) = 3
    /\ month_trip_info(vehicle) # call.value

\* A trip_list of three trips handed over out of order.
C5_WitnessDay ==
    /\ call.op = "day_trip_info"
    /\ hasattr(call.value, "trip_list")
    /\ Len(call.value.trip_list) = 3
    /\ day_trip_info(vehicle) # call.value

\* The last call assigned an empty or absent value to a sorted collection.
EmptyAssigned ==
    /\ call.op \in {"daily_stats", "month_trip_info", "day_trip_info"}
    /\ ~NonEmptyAssigned

\* C6: assigning None, an empty list or a container whose inner list is empty
\* to daily_stats, month_trip_info or day_trip_info stores exactly that value,
\* replacing what was stored.
C6_EmptyStored ==
    EmptyAssigned =>
        CASE call.op = "daily_stats" -> daily_stats(vehicle) = call.value
          [] call.op = "month_trip_info" -> month_trip_info(vehicle) = call.value
          [] call.op = "day_trip_info" -> day_trip_info(vehicle) = call.value

\* An empty list assigned over stored daily statistics.
C6_Witness ==
    /\ call.op = "daily_stats"
    /\ call.value = PyList(<<>>)
    /\ call.prev # None
    /\ call.prev.items # <<>>
    /\ daily_stats(vehicle) = PyList(<<>>)

\* A container with an empty day_list assigned over a stored month.
C6_WitnessMonth ==
    /\ call.op = "month_trip_info"
    /\ hasattr(call.value, "day_list")
    /\ call.value.day_list = <<>>
    /\ hasattr(call.prev, "day_list")
    /\ call.prev.day_list # <<>>
    /\ month_trip_info(vehicle) = call.value

\* None assigned over a stored day.
C6_WitnessDay ==
    /\ call.op = "day_trip_info"
    /\ call.value = None
    /\ call.prev # None
    /\ day_trip_info(vehicle) = None

(* ------------- claims about sequences of last_updated_at --------------- *)

\* C11: in every step from a state with a stored last_updated_at, the stored
\* value afterwards is a datetime that is not earlier than the one before,
\* whatever the utc offsets involved, unless the step is a last_updated_at
\* assignment whose input parses to None, which leaves None stored (and so
\* lets any later timestamp, also an earlier one, be stored next).
C11_NeverDecreases ==
    [][ last_updated_at(vehicle) # None =>
            \/ /\ last_updated_at(vehicle') # None
               /\ dt_ge(last_updated_at(vehicle'), last_updated_at(vehicle))
            \/ /\ call'.op = "last_updated_at"
               /\ get_safe_local_datetime(call'.value, call'.local) = None
               /\ last_updated_at(vehicle') = None
      ]_vars

\* An earlier timestamp with a negative utc offset, assigned over a stored
\* one with a positive offset: the stored value stays.
C11_Witness ==
    /\ BothFilled
    /\ utcoffset(CallNewest) < 0
    /\ utcoffset(call.prev) > 0
    /\ dt_lt(CallNewest, call.prev)
    /\ last_updated_at(vehicle) = call.prev

\* A timestamp stored while nothing was stored (at first, or after a reset):
\* it is accepted although it is earlier than the location time set before.
C11_WitnessAfterReset ==
    /\ call.op = "last_updated_at"
    /\ call.prev = None
    /\ CallNewest # None
    /\ last_updated_at(vehicle) = CallNewest
    /\ location_last_updated_at(vehicle) # None
    /\ dt_lt(last_updated_at(vehicle), location_last_updated_at(vehicle))

====
